---- MODULE Spec2Model ----
(***************************************************************************)
(* The ethernet-interface namespace of pango (netw/eth/eth.go): the        *)
(* normalized Entry, the two wire schemas (v1, v2) with Normalize and      *)
(* specify, the address path, the version dispatch and the Set / Edit /    *)
(* Delete / list operations with their vsys import / unimport calls.       *)
(*                                                                         *)
(* Modelling conventions                                                   *)
(*   - a Go pointer is Nil (<<>>) or Ptr(x) (<<x>>); the raw map of an     *)
(*     Entry, a reference type, is modelled the same way, so that a nil    *)
(*     map and an empty map are different values;                          *)
(*   - a []string is a sequence; the nil slice and the empty slice are     *)
(*     both <<>>;                                                          *)
(*   - an XPATH is a sequence of segments, each segment a sequence of      *)
(*     strings: <<"ethernet">> is a plain segment, <<"entry", "a", "b">>   *)
(*     is the selector entry[@name='a' or @name='b'];                      *)
(*   - raw XML text is a sequence of tokens;                               *)
(*   - the transport client (util.XapiClient) is the environment: every    *)
(*     call made on it is appended to `calls` with the result it returned, *)
(*     which the action draws from Results. LogAction / LogQuery and the   *)
(*     Versioning() query are not recorded.                                *)
(***************************************************************************)
EXTENDS Integers, Sequences, FiniteSets, TLC

VARIABLES
    op,      \* the namespace operation last run: [name, vsys, args, ver]
    calls,   \* the transport calls that operation made, in order
    ret,     \* the error that operation returned ("nil" for no error)
    schema,  \* codec runs: the wire schema in use, "v1" or "v2"
    ent,     \* codec runs: the normalized Entry given to specify
    wire,    \* codec runs: the wire entry (specify's result / the payload read)
    out,     \* codec runs: the Entry Normalize returned
    wout,    \* codec runs: the wire entry written back from `out`
    phase,   \* codec runs: position in the run
    hist,    \* version runs: the selections versioning() made, in order
    dst,     \* copy runs: the receiver of Copy before the call
    cfgMode, \* device runs: the configured mode of each interface ("none"
             \* for an interface that does not exist)
    imported,\* device runs: the interfaces that are members of the vsys
    clean    \* device runs: only Set and Edit calls that returned no error
             \* have been made so far

vars ==
    <<op, calls, ret, schema, ent, wire, out, wout, phase, hist, dst, cfgMode,
      imported, clean>>

Nil == <<>>
Ptr(x) == <<x>>

----------------------------------------------------------------------------
(* Bounds of the model.                                                    *)

MaxBatch == 2      \* entities / identifiers per Set or Delete call
MaxIps == 1        \* static addresses of a layer3 Entry
MaxHist == 2       \* versioning() calls observed in a version run
MaxPatch == 1      \* patch numbers 0..MaxPatch
MaxMinor == 2      \* minor numbers 0..MaxMinor
MinMajor == 6      \* major numbers MinMajor..MaxMajor
MaxMajor == 8

----------------------------------------------------------------------------
(* util helpers (pango/util, not part of the sources at hand).             *)

YesNo(b) == IF b THEN "yes" ELSE "no"

AsBool(s) == s = "yes"

\* []string -> *EntryType: nil for the nil slice, else one entry per string.
StrToEnt(s) ==
    IF s = <<>> THEN Nil
    ELSE Ptr([Entries |-> [i \in 1..Len(s) |-> [Value |-> s[i]]]])

\* *EntryType -> []string.
EntToStr(p) ==
    IF p = Nil THEN <<>>
    ELSE [i \in 1..Len(p[1].Entries) |-> p[1].Entries[i].Value]

\* The token of raw XML text that carries no content (formatting).
Insignificant == " "

IsSignificant(tok) == tok /= Insignificant

\* Trims the insignificant formatting of an unparsed sub-section.
CleanRawXml(text) == SelectSeq(text, IsSignificant)

\* The selector segment for the given names; no names: the bare "entry".
AsEntryXpath(vals) == <<"entry">> \o vals

\* BulkElement.Config: a single element is sent as itself, several are sent
\* wrapped in the container element.
Config(d) == IF Len(d.Data) = 1 THEN d.Data[1] ELSE d

----------------------------------------------------------------------------
(* The normalized Entry and the wire entries.                              *)

\* The zero value of Entry.
ZeroEntry ==
    [Name |-> "", Mode |-> "", StaticIps |-> <<>>, EnableDhcp |-> FALSE,
     CreateDhcpDefaultRoute |-> FALSE, DhcpDefaultRouteMetric |-> 0,
     Ipv6Enabled |-> FALSE, ManagementProfile |-> "", Mtu |-> 0,
     AdjustTcpMss |-> FALSE, NetflowProfile |-> "", LldpEnabled |-> FALSE,
     LldpProfile |-> "", LinkSpeed |-> "", LinkDuplex |-> "",
     LinkState |-> "", AggregateGroup |-> "", Comment |-> "",
     Ipv4MssAdjust |-> 0, Ipv6MssAdjust |-> 0, raw |-> Nil]

\* The zero value of entry_v1 and of entry_v2 (they have the same fields; the
\* layer3 structure they point to differs).
ZeroWire ==
    [Name |-> "", ModeL2 |-> Nil, ModeL3 |-> Nil, ModeVwire |-> Nil,
     TapMode |-> Nil, HaMode |-> Nil, DecryptMirrorMode |-> Nil,
     AggregateGroupMode |-> Nil, LinkSpeed |-> "", LinkDuplex |-> "",
     LinkState |-> "", Comment |-> ""]

emptyMode == [empty |-> TRUE]

\* `text, present := e.raw[key]` on a Go map (nil or not).
RawPresent(raw, key) == raw /= Nil /\ key \in DOMAIN raw[1]

RawText(raw, key) == raw[1][key]

\* `ans.raw[key] = CleanRawXml(p.Text)` when the *RawXml p is not nil.
RawPut(m, key, p) ==
    IF p = Nil THEN m
    ELSE [k \in DOMAIN m \cup {key} |->
            IF k = key THEN CleanRawXml(p[1].Text) ELSE m[k]]

\* `if text, present := e.raw[key]; present { x = &util.RawXml{text} }`.
RawXmlOf(raw, key) ==
    IF RawPresent(raw, key) THEN Ptr([Text |-> RawText(raw, key)]) ELSE Nil

\* make(map[string] string), and the closing `if len(ans.raw) == 0`.
EmptyMap == [k \in {} |-> <<>>]

RawOrNil(m) == IF DOMAIN m = {} THEN Nil ELSE Ptr(m)

\* The part of Normalize both schemas share for a layer3 entry: every field
\* of l3Mode_v1, which l3Mode_v2 has too.
NormalizeL3(ans, m) ==
    LET withDhcp ==
            IF m.Dhcp /= Nil
            THEN [ans EXCEPT
                    !.EnableDhcp = AsBool(m.Dhcp[1].Enable),
                    !.CreateDhcpDefaultRoute = AsBool(m.Dhcp[1].CreateDefaultRoute),
                    !.DhcpDefaultRouteMetric = m.Dhcp[1].Metric]
            ELSE ans
        r1 == RawPut(EmptyMap, "arp", m.Arp)
        r2 == RawPut(r1, "l3subinterface", m.Subinterface)
        r3 == RawPut(r2, "ipv6", m.Ipv6.Address)
    IN  [withDhcp EXCEPT
            !.Mode = "layer3",
            !.Ipv6Enabled = AsBool(m.Ipv6.Enabled),
            !.ManagementProfile = m.ManagementProfile,
            !.Mtu = m.Mtu,
            !.NetflowProfile = m.NetflowProfile,
            !.AdjustTcpMss = AsBool(m.AdjustTcpMss),
            !.StaticIps = EntToStr(m.StaticIps),
            !.raw = RawOrNil(r3)]

\* The cases of Normalize after layer3, identical in both schemas.
NormalizeOther(ans, a) ==
    IF a.ModeL2 /= Nil
    THEN [ans EXCEPT
            !.Mode = "layer2",
            !.LldpEnabled = AsBool(a.ModeL2[1].LldpEnabled),
            !.LldpProfile = a.ModeL2[1].LldpProfile,
            !.NetflowProfile = a.ModeL2[1].NetflowProfile,
            !.raw = RawOrNil(RawPut(EmptyMap, "l2subinterface",
                                     a.ModeL2[1].Subinterface))]
    ELSE IF a.ModeVwire /= Nil
    THEN [ans EXCEPT
            !.Mode = "virtual-wire",
            !.LldpEnabled = AsBool(a.ModeVwire[1].LldpEnabled),
            !.LldpProfile = a.ModeVwire[1].LldpProfile,
            !.NetflowProfile = a.ModeVwire[1].NetflowProfile]
    ELSE IF a.TapMode /= Nil THEN [ans EXCEPT !.Mode = "tap"]
    ELSE IF a.HaMode /= Nil THEN [ans EXCEPT !.Mode = "ha"]
    ELSE IF a.DecryptMirrorMode /= Nil THEN [ans EXCEPT !.Mode = "decrypt-mirror"]
    ELSE IF a.AggregateGroupMode /= Nil THEN [ans EXCEPT !.Mode = "aggregate-group"]
    ELSE ans

\* The Entry literal Normalize starts from.
NormalizeBase(a) ==
    [ZeroEntry EXCEPT
        !.Name = a.Name, !.LinkSpeed = a.LinkSpeed, !.LinkDuplex = a.LinkDuplex,
        !.LinkState = a.LinkState, !.Comment = a.Comment]

\* (o *container_v1) Normalize.
Normalize_v1(o) ==
    LET a == o.Answer
        ans == NormalizeBase(a)
    IN  IF a.ModeL3 /= Nil THEN NormalizeL3(ans, a.ModeL3[1])
        ELSE NormalizeOther(ans, a)

\* (o *container_v2) Normalize.
Normalize_v2(o) ==
    LET a == o.Answer
        ans == NormalizeBase(a)
    IN  IF a.ModeL3 /= Nil
        THEN [NormalizeL3(ans, a.ModeL3[1]) EXCEPT
                !.Ipv4MssAdjust = a.ModeL3[1].Ipv4MssAdjust,
                !.Ipv6MssAdjust = a.ModeL3[1].Ipv6MssAdjust]
        ELSE NormalizeOther(ans, a)

\* The dhcpSettings both specify functions build.
SpecifyDhcp(e) ==
    IF e.EnableDhcp \/ e.CreateDhcpDefaultRoute \/ e.DhcpDefaultRouteMetric /= 0
    THEN Ptr([Enable |-> YesNo(e.EnableDhcp),
              CreateDefaultRoute |-> YesNo(e.CreateDhcpDefaultRoute),
              Metric |-> e.DhcpDefaultRouteMetric])
    ELSE Nil

\* The l3Mode_v1 specify_v1 builds.
SpecifyL3_v1(e) ==
    [Ipv6 |-> [Enabled |-> YesNo(e.Ipv6Enabled),
               Address |-> RawXmlOf(e.raw, "ipv6")],
     ManagementProfile |-> e.ManagementProfile,
     Mtu |-> e.Mtu,
     NetflowProfile |-> e.NetflowProfile,
     AdjustTcpMss |-> YesNo(e.AdjustTcpMss),
     StaticIps |-> StrToEnt(e.StaticIps),
     Dhcp |-> SpecifyDhcp(e),
     Arp |-> RawXmlOf(e.raw, "arp"),
     Subinterface |-> RawXmlOf(e.raw, "l3subinterface")]

\* The l3Mode_v2 specify_v2 builds.
SpecifyL3_v2(e) ==
    [Ipv6 |-> [Enabled |-> YesNo(e.Ipv6Enabled),
               Address |-> RawXmlOf(e.raw, "ipv6")],
     ManagementProfile |-> e.ManagementProfile,
     Mtu |-> e.Mtu,
     NetflowProfile |-> e.NetflowProfile,
     AdjustTcpMss |-> YesNo(e.AdjustTcpMss),
     Ipv4MssAdjust |-> e.Ipv4MssAdjust,
     Ipv6MssAdjust |-> e.Ipv6MssAdjust,
     StaticIps |-> StrToEnt(e.StaticIps),
     Dhcp |-> SpecifyDhcp(e),
     Arp |-> RawXmlOf(e.raw, "arp"),
     Subinterface |-> RawXmlOf(e.raw, "l3subinterface")]

\* The otherMode built for "layer2" (units re-inserted) and "virtual-wire".
SpecifyOtherMode(e, units) ==
    [LldpEnabled |-> YesNo(e.LldpEnabled),
     LldpProfile |-> e.LldpProfile,
     NetflowProfile |-> e.NetflowProfile,
     Subinterface |-> units]

\* The entry literal specify starts from.
SpecifyBase(e) ==
    [ZeroWire EXCEPT
        !.Name = e.Name, !.LinkSpeed = e.LinkSpeed, !.LinkDuplex = e.LinkDuplex,
        !.LinkState = e.LinkState, !.Comment = e.Comment]

\* The switch on e.Mode, given the layer3 structure of the schema; an
\* unknown mode leaves every mode block nil.
SpecifyMode(e, l3) ==
    LET ans == SpecifyBase(e)
    IN  IF e.Mode = "layer3" THEN [ans EXCEPT !.ModeL3 = Ptr(l3)]
        ELSE IF e.Mode = "layer2"
        THEN [ans EXCEPT !.ModeL2 =
                Ptr(SpecifyOtherMode(e, RawXmlOf(e.raw, "l2subinterface")))]
        ELSE IF e.Mode = "virtual-wire"
        THEN [ans EXCEPT !.ModeVwire = Ptr(SpecifyOtherMode(e, Nil))]
        ELSE IF e.Mode = "tap" THEN [ans EXCEPT !.TapMode = Ptr(emptyMode)]
        ELSE IF e.Mode = "ha" THEN [ans EXCEPT !.HaMode = Ptr(emptyMode)]
        ELSE IF e.Mode = "decrypt-mirror"
        THEN [ans EXCEPT !.DecryptMirrorMode = Ptr(emptyMode)]
        ELSE IF e.Mode = "aggregate-group"
        THEN [ans EXCEPT !.AggregateGroupMode = Ptr(emptyMode)]
        ELSE ans

\* A specify_v1 that re-inserts the arp fragment as the units and the units
\* fragment as the arp section.
specify_v1_SwappedRaw(e) ==
    SpecifyMode(e, [SpecifyL3_v1(e) EXCEPT
                        !.Arp = RawXmlOf(e.raw, "l3subinterface"),
                        !.Subinterface = RawXmlOf(e.raw, "arp")])

specify_v1(e) == SpecifyMode(e, SpecifyL3_v1(e))

specify_v2(e) == SpecifyMode(e, SpecifyL3_v2(e))

\* The codec of a schema, as versioning() pairs them.
Specify(s, e) == IF s = "v2" THEN specify_v2(e) ELSE specify_v1(e)

Normalize(s, w) ==
    IF s = "v2" THEN Normalize_v2([Answer |-> w]) ELSE Normalize_v1([Answer |-> w])

----------------------------------------------------------------------------
(* The inputs of the codec runs.                                           *)

Schemas == {"v1", "v2"}

Modes == {"layer3", "layer2", "virtual-wire", "tap", "ha", "decrypt-mirror",
          "aggregate-group"}

\* The raw-map keys Normalize writes for a mode.
RawKeys(mode) ==
    IF mode = "layer3" THEN {"arp", "l3subinterface", "ipv6"}
    ELSE IF mode = "layer2" THEN {"l2subinterface"}
    ELSE {}

IpPool == <<"10.0.1.1/24", "10.0.2.1/24", "10.0.3.1/24">>

IpLists == {SubSeq(IpPool, 1, n) : n \in 0..MaxIps}

\* Raw text as Normalize stores it (cleaned), and as a device may send it.
CleanTexts == {<<"<a/>">>, <<"<a/>", "<b/>">>}

DeviceTexts == CleanTexts \cup {<<"<a/>", Insignificant, "<b/>">>}

\* The raw maps an Entry of the mode can carry: nil, or a map over some of
\* the mode's keys (the empty map only arises outside Normalize).
RawsOf(mode) ==
    {Nil} \cup {Ptr([k \in K |-> t]) : K \in SUBSET RawKeys(mode), t \in CleanTexts}

WithLink(e, c) ==
    IF c THEN [e EXCEPT !.LinkSpeed = "auto", !.LinkDuplex = "full",
                        !.LinkState = "up", !.Comment = "uplink"]
    ELSE e

Named(mode) == [ZeroEntry EXCEPT !.Name = "ethernet1/1", !.Mode = mode]

L3Entries ==
    {WithLink([Named("layer3") EXCEPT
                !.StaticIps = ips,
                !.EnableDhcp = d[1],
                !.CreateDhcpDefaultRoute = d[2],
                !.DhcpDefaultRouteMetric = d[3],
                !.Ipv6Enabled = b[1],
                !.AdjustTcpMss = b[2],
                !.ManagementProfile = IF p THEN "mgmt" ELSE "",
                !.Mtu = IF p THEN 1500 ELSE 0,
                !.NetflowProfile = IF p THEN "nf" ELSE "",
                !.Ipv4MssAdjust = m[1],
                !.Ipv6MssAdjust = m[2],
                !.raw = r], p) :
        ips \in IpLists,
        d \in BOOLEAN \X BOOLEAN \X {0, 10},
        b \in BOOLEAN \X BOOLEAN,
        p \in BOOLEAN,
        m \in {<<0, 0>>, <<40, 60>>},
        r \in RawsOf("layer3")}

LldpEntries(mode) ==
    {WithLink([Named(mode) EXCEPT
                !.LldpEnabled = b,
                !.LldpProfile = IF p THEN "lldp" ELSE "",
                !.NetflowProfile = IF p THEN "nf" ELSE "",
                !.raw = r], c) :
        b \in BOOLEAN, p \in BOOLEAN, c \in BOOLEAN, r \in RawsOf(mode)}

PlainEntries ==
    {WithLink([Named(mode) EXCEPT !.AggregateGroup = g], c) :
        mode \in {"tap", "ha", "decrypt-mirror", "aggregate-group", "loopback"},
        g \in {"", "ae1"}, c \in BOOLEAN}

\* Entries that carry a field of a mode other than their own.
StrayEntries ==
    {[e EXCEPT !.Mtu = 9000] : e \in LldpEntries("virtual-wire") \cup PlainEntries}
    \cup {[e EXCEPT !.LldpProfile = "lldp"] : e \in {x \in L3Entries : x.raw = Nil}}
    \cup {[e EXCEPT !.raw = Ptr([k \in {"arp"} |-> <<"<a/>">>])] : e \in PlainEntries}

Entries ==
    L3Entries \cup LldpEntries("layer2") \cup LldpEntries("virtual-wire")
    \cup PlainEntries \cup StrayEntries

\* The payloads a device can send for one entry: at most one mode block.
RawPtrs == {Nil} \cup {Ptr([Text |-> t]) : t \in DeviceTexts}

WireLink(w, c) ==
    IF c THEN [w EXCEPT !.LinkSpeed = "auto", !.LinkDuplex = "full",
                        !.LinkState = "up", !.Comment = "uplink"]
    ELSE w

WireNamed == [ZeroWire EXCEPT !.Name = "ethernet1/1"]

DeviceL3_v1 ==
    {[Ipv6 |-> [Enabled |-> en, Address |-> a6],
      ManagementProfile |-> IF p THEN "mgmt" ELSE "",
      Mtu |-> IF p THEN 1500 ELSE 0,
      NetflowProfile |-> IF p THEN "nf" ELSE "",
      AdjustTcpMss |-> en,
      StaticIps |-> StrToEnt(ips),
      Dhcp |-> IF p THEN Ptr([Enable |-> "yes", CreateDefaultRoute |-> "no",
                               Metric |-> 10])
               ELSE Nil,
      Arp |-> arp,
      Subinterface |-> units] :
        en \in {"yes", "no"}, p \in BOOLEAN, ips \in IpLists,
        a6 \in RawPtrs, arp \in RawPtrs, units \in RawPtrs}

DeviceL3_v2 ==
    {[Ipv6 |-> m.Ipv6, ManagementProfile |-> m.ManagementProfile, Mtu |-> m.Mtu,
      NetflowProfile |-> m.NetflowProfile, AdjustTcpMss |-> m.AdjustTcpMss,
      Ipv4MssAdjust |-> IF m.Dhcp = Nil THEN 0 ELSE 40,
      Ipv6MssAdjust |-> IF m.Dhcp = Nil THEN 0 ELSE 60,
      StaticIps |-> m.StaticIps, Dhcp |-> m.Dhcp, Arp |-> m.Arp,
      Subinterface |-> m.Subinterface] : m \in DeviceL3_v1}

DeviceOther ==
    {[LldpEnabled |-> en, LldpProfile |-> IF p THEN "lldp" ELSE "",
      NetflowProfile |-> IF p THEN "nf" ELSE "", Subinterface |-> units] :
        en \in {"yes", "no"}, p \in BOOLEAN, units \in RawPtrs}

DevicePayloads(s) ==
    LET l3 == IF s = "v2" THEN DeviceL3_v2 ELSE DeviceL3_v1
        modes ==
            {[WireNamed EXCEPT !.ModeL3 = Ptr(m)] : m \in l3}
            \cup {[WireNamed EXCEPT !.ModeL2 = Ptr(m)] : m \in DeviceOther}
            \cup {[WireNamed EXCEPT !.ModeVwire = Ptr(m)] : m \in DeviceOther}
            \cup {[WireNamed EXCEPT !.TapMode = Ptr(emptyMode)],
                  [WireNamed EXCEPT !.HaMode = Ptr(emptyMode)],
                  [WireNamed EXCEPT !.DecryptMirrorMode = Ptr(emptyMode)],
                  [WireNamed EXCEPT !.AggregateGroupMode = Ptr(emptyMode)],
                  WireNamed}
    IN  {WireLink(w, c) : w \in modes, c \in BOOLEAN}

----------------------------------------------------------------------------
(* The state of the runs that are not in progress.                         *)

NoVersion == [Major |-> 0, Minor |-> 0, Patch |-> 0, Suffix |-> ""]

NoOp == [name |-> "none", vsys |-> "", args |-> <<>>, ver |-> NoVersion]

OpsIdle == op = NoOp /\ calls = <<>> /\ ret = "nil"

CodecIdle ==
    /\ schema = "v1" /\ ent = ZeroEntry /\ wire = ZeroWire
    /\ out = ZeroEntry /\ wout = ZeroWire /\ phase = "idle"

\* The interfaces of the device.
Names == {"ethernet1/1", "ethernet1/2"}

CopyIdle == dst = ZeroEntry

DevIdle == cfgMode = [n \in Names |-> "none"] /\ imported = {} /\ clean = TRUE

opsVars == <<op, calls, ret>>
codecVars == <<schema, ent, wire, out, wout, phase>>
copyVars == <<dst>>
devVars == <<cfgMode, imported, clean>>

----------------------------------------------------------------------------
(* Write-then-read run: an Entry is serialized as Set / Edit do (fn(e)),   *)
(* the result is decoded back as details() does (obj.Normalize()).         *)

InitRoundTrip ==
    /\ schema \in Schemas
    /\ ent \in Entries
    /\ wire = ZeroWire /\ out = ZeroEntry /\ wout = ZeroWire
    /\ phase = "entity"
    /\ OpsIdle /\ hist = <<>> /\ CopyIdle /\ DevIdle

SpecifyStep ==
    /\ phase = "entity"
    /\ wire' = Specify(schema, ent)
    /\ phase' = "specified"
    /\ UNCHANGED <<schema, ent, out, wout, opsVars, hist, copyVars, devVars>>

NormalizeStep ==
    /\ phase = "specified"
    /\ out' = Normalize(schema, wire)
    /\ phase' = "normalized"
    /\ UNCHANGED <<schema, ent, wire, wout, opsVars, hist, copyVars, devVars>>

NextRoundTrip == SpecifyStep \/ NormalizeStep

SpecRoundTrip == InitRoundTrip /\ [][NextRoundTrip]_vars

----------------------------------------------------------------------------
(* Read-then-write run: a payload of the device is decoded (details), and  *)
(* the Entry obtained is written back unmodified (fn(e) of Set / Edit).    *)

InitReadWrite ==
    /\ schema \in Schemas
    /\ wire \in DevicePayloads(schema)
    /\ ent = ZeroEntry /\ out = ZeroEntry /\ wout = ZeroWire
    /\ phase = "payload"
    /\ OpsIdle /\ hist = <<>> /\ CopyIdle /\ DevIdle

ReadStep ==
    /\ phase = "payload"
    /\ out' = Normalize(schema, wire)
    /\ phase' = "read"
    /\ UNCHANGED <<schema, ent, wire, wout, opsVars, hist, copyVars, devVars>>

WriteStep ==
    /\ phase = "read"
    /\ wout' = Specify(schema, out)
    /\ phase' = "written"
    /\ UNCHANGED <<schema, ent, wire, out, opsVars, hist, copyVars, devVars>>

NextReadWrite == ReadStep \/ WriteStep

SpecReadWrite == InitReadWrite /\ [][NextReadWrite]_vars

----------------------------------------------------------------------------
(* Copy run: o.Copy(s) on a receiver and a source Entry.                   *)

\* (o *Entry) Copy: the value of the receiver after o.Copy(s).
Copy(o, s) ==
    [o EXCEPT
        !.Mode = s.Mode,
        !.StaticIps = s.StaticIps,
        !.EnableDhcp = s.EnableDhcp,
        !.CreateDhcpDefaultRoute = s.CreateDhcpDefaultRoute,
        !.DhcpDefaultRouteMetric = s.DhcpDefaultRouteMetric,
        !.Ipv6Enabled = s.Ipv6Enabled,
        !.ManagementProfile = s.ManagementProfile,
        !.Mtu = s.Mtu,
        !.AdjustTcpMss = s.AdjustTcpMss,
        !.NetflowProfile = s.NetflowProfile,
        !.LldpEnabled = s.LldpEnabled,
        !.LldpProfile = s.LldpProfile,
        !.LinkSpeed = s.LinkSpeed,
        !.LinkDuplex = s.LinkDuplex,
        !.LinkState = s.LinkState,
        !.AggregateGroup = s.AggregateGroup,
        !.Comment = s.Comment,
        !.Ipv4MssAdjust = s.Ipv4MssAdjust,
        !.Ipv6MssAdjust = s.Ipv6MssAdjust]

\* The entries Copy is run on: layer2 and plain entries with and without
\* fragments, and layer3 entries with every field set or none.
CopySources ==
    LldpEntries("layer2") \cup PlainEntries
    \cup {e \in L3Entries :
            /\ e.EnableDhcp = e.CreateDhcpDefaultRoute
            /\ e.EnableDhcp = e.Ipv6Enabled
            /\ e.EnableDhcp = e.AdjustTcpMss
            /\ e.EnableDhcp = (e.DhcpDefaultRouteMetric /= 0)
            /\ e.EnableDhcp = (e.Mtu /= 0)
            /\ e.EnableDhcp = (e.Ipv4MssAdjust /= 0)
            /\ e.EnableDhcp = (e.StaticIps /= <<>>)
            /\ e.raw \in {Nil, Ptr([k \in RawKeys("layer3") |-> <<"<a/>">>])}}

CopyReceivers == {[e EXCEPT !.Name = "ethernet1/2"] : e \in CopySources}

InitCopy ==
    /\ dst \in CopyReceivers
    /\ ent \in CopySources
    /\ schema = "v1" /\ wire = ZeroWire /\ out = ZeroEntry /\ wout = ZeroWire
    /\ phase = "receiver"
    /\ OpsIdle /\ DevIdle /\ hist = <<>>

CopyStep ==
    /\ phase = "receiver"
    /\ out' = Copy(dst, ent)
    /\ phase' = "copied"
    /\ UNCHANGED <<schema, ent, wire, wout, opsVars, hist, copyVars, devVars>>

NextCopy == CopyStep

SpecCopy == InitCopy /\ [][NextCopy]_vars

----------------------------------------------------------------------------
(* Device versions and the version dispatch.                               *)

Versions ==
    [Major : MinMajor..MaxMajor, Minor : 0..MaxMinor, Patch : 0..MaxPatch,
     Suffix : {"", "h1"}]

\* version.Number.Gte: major, then minor, then patch; the suffix is not
\* compared.
Gte(v, o) ==
    IF v.Major /= o.Major THEN v.Major > o.Major
    ELSE IF v.Minor /= o.Minor THEN v.Minor > o.Minor
    ELSE v.Patch >= o.Patch

\* A dispatch that looks at the minor number alone.
versioning_MinorOnly(v) ==
    IF v.Minor >= 1
    THEN [container |-> "container_v2", fn |-> "specify_v2"]
    ELSE [container |-> "container_v1", fn |-> "specify_v1"]

\* (c *Eth) versioning, on the version c.con.Versioning() returned.
versioning(v) ==
    IF Gte(v, [Major |-> 7, Minor |-> 1, Patch |-> 0, Suffix |-> ""])
    THEN [container |-> "container_v2", fn |-> "specify_v2"]
    ELSE [container |-> "container_v1", fn |-> "specify_v1"]

\* Calling the serialize function versioning() returned.
CallFn(fn, e) == IF fn = "specify_v2" THEN specify_v2(e) ELSE specify_v1(e)

----------------------------------------------------------------------------
(* Version run: versioning() is called on a series of device versions.     *)

InitVersioning == hist = <<>> /\ CopyIdle /\ DevIdle /\ OpsIdle /\ CodecIdle

Versioning ==
    /\ Len(hist) < MaxHist
    /\ \E v \in Versions :
        LET sel == versioning(v)
        IN  hist' = Append(hist, [v |-> v, container |-> sel.container,
                                  fn |-> sel.fn])
    /\ UNCHANGED <<opsVars, codecVars, copyVars, devVars>>

NextVersioning == Versioning

SpecVersioning == InitVersioning /\ [][NextVersioning]_vars

----------------------------------------------------------------------------
(* The namespace operations.                                               *)

\* What a transport call can return: no error, or one of two errors.
Results == {"nil", "err1", "err2"}

\* (c *Eth) xpath.
xpath(vals) ==
    << <<"config">>, <<"devices">>, AsEntryXpath(<<"localhost.localdomain">>),
       <<"network">>, <<"interface">>, <<"ethernet">>, AsEntryXpath(vals) >>

\* path[:len(path) - n]
DropLast(path, n) == SubSeq(path, 1, Len(path) - n)

\* One call on the transport client, with the error it returned.
Call(fn, path, vsys, names, body, res) ==
    [fn |-> fn, path |-> path, vsys |-> vsys, names |-> names, body |-> body,
     res |-> res]

\* n1 of Set: the names of all the given entries.
AllNames(e) == [i \in 1..Len(e) |-> e[i].Name]

Importable(x) == x.Mode /= "ha" /\ x.Mode /= "aggregate-group"

\* An import list that leaves no entry out.
ImportNames_NoFilter(e) == AllNames(e)

\* n2 of Set: the names of the entries to import.
ImportNames(e) == AllNames(SelectSeq(e, Importable))

\* A Set that never trims its path.
SetPath_NoTrim(e) == xpath(AllNames(e))

\* A Set that trims one segment whatever the number of entries.
SetPath_TrimOne(e) == DropLast(xpath(AllNames(e)), 1)

\* The XPATH Set sends.
SetPath(e) ==
    IF Len(e) = 1 THEN DropLast(xpath(AllNames(e)), 1)
    ELSE DropLast(xpath(AllNames(e)), 2)

\* The body Set sends: d.Config().
SetBody(e, v) ==
    Config([XMLName |-> "ethernet",
            Data |-> [i \in 1..Len(e) |-> CallFn(versioning(v).fn, e[i])]])

Run(c, r) == [calls |-> c, ret |-> r]

\* A Set that removes what it wrote when the import fails.
SetRun_Rollback(vsys, e, v, r1, r2) ==
    LET c1 == Call("set", SetPath(e), "", <<>>, Ptr(SetBody(e, v)), r1)
        c2 == Call("import", <<>>, vsys, ImportNames(e), Nil, r2)
        c3 == Call("delete", xpath(AllNames(e)), "", <<>>, Nil, "nil")
    IN  IF Len(e) = 0 THEN Run(<<>>, "nil")
        ELSE IF r1 /= "nil" THEN Run(<<c1>>, r1)
        ELSE IF vsys = "" \/ Len(ImportNames(e)) = 0 THEN Run(<<c1>>, "nil")
        ELSE IF r2 /= "nil" THEN Run(<<c1, c2, c3>>, r2)
        ELSE Run(<<c1, c2>>, r2)

\* A Set without its check for an empty batch.
SetRun_NoEmptyCheck(vsys, e, v, r1, r2) ==
    LET c1 == Call("set", DropLast(xpath(AllNames(e)), 2), "", <<>>,
                   Ptr([XMLName |-> "ethernet", Data |-> <<>>]), r1)
    IN  Run(<<c1>>, r1)

\* (c *Eth) Set: vsys and e are its arguments, v the device version, r1 and
\* r2 what the set and the import call return.
SetRun(vsys, e, v, r1, r2) ==
    LET c1 == Call("set", SetPath(e), "", <<>>, Ptr(SetBody(e, v)), r1)
        c2 == Call("import", <<>>, vsys, ImportNames(e), Nil, r2)
    IN  IF Len(e) = 0 THEN Run(<<>>, "nil")
        ELSE IF r1 /= "nil" THEN Run(<<c1>>, r1)
        ELSE IF vsys = "" \/ Len(ImportNames(e)) = 0 THEN Run(<<c1>>, "nil")
        ELSE Run(<<c1, c2>>, r2)

\* (c *Eth) Edit.
EditRun(vsys, e, v, r1, r2) ==
    LET c1 == Call("edit", xpath(<<e.Name>>), "", <<>>,
                   Ptr(CallFn(versioning(v).fn, e)), r1)
        c2 == Call("import", <<>>, vsys, <<e.Name>>, Nil, r2)
    IN  IF r1 /= "nil" THEN Run(<<c1>>, r1)
        ELSE IF vsys = "" \/ e.Mode = "ha" \/ e.Mode = "aggregate-group"
        THEN Run(<<c1>>, "nil")
        ELSE Run(<<c1, c2>>, r2)

\* The type switch of Delete: a string and an Entry give a name.
IsName(x) == x.kind \in {"string", "Entry"}

\* A Delete that goes on to delete whatever the unimport returned.
DeleteRun_NoAbort(vsys, e, r1, r2) ==
    LET names == [i \in 1..Len(e) |-> e[i].name]
        c1 == Call("unimport", <<>>, vsys, names, Nil, r1)
        c2 == Call("delete", xpath(names), "", <<>>, Nil, r2)
    IN  IF Len(e) = 0 THEN Run(<<>>, "nil")
        ELSE IF \E i \in 1..Len(e) : ~IsName(e[i])
        THEN Run(<<>>, "Unknown type sent to delete")
        ELSE Run(<<c1, c2>>, r2)

\* A Delete that passes over an identifier of another type and goes on with
\* the names it has.
DeleteRun_SkipUnknown(vsys, e, r1, r2) ==
    LET valid == SelectSeq(e, IsName)
        names == [i \in 1..Len(valid) |-> valid[i].name]
        c1 == Call("unimport", <<>>, vsys, names, Nil, r1)
        c2 == Call("delete", xpath(names), "", <<>>, Nil, r2)
    IN  IF Len(e) = 0 THEN Run(<<>>, "nil")
        ELSE IF r1 /= "nil" THEN Run(<<c1>>, r1)
        ELSE Run(<<c1, c2>>, r2)

\* (c *Eth) Delete: r1 and r2 are what the unimport and the delete call
\* return.
DeleteRun(vsys, e, r1, r2) ==
    LET names == [i \in 1..Len(e) |-> e[i].name]
        c1 == Call("unimport", <<>>, vsys, names, Nil, r1)
        c2 == Call("delete", xpath(names), "", <<>>, Nil, r2)
    IN  IF Len(e) = 0 THEN Run(<<>>, "nil")
        ELSE IF \E i \in 1..Len(e) : ~IsName(e[i])
        THEN Run(<<>>, "Unknown type sent to delete")
        ELSE IF r1 /= "nil" THEN Run(<<c1>>, r1)
        ELSE Run(<<c1, c2>>, r2)

\* The XPATH ShowList and GetList read.
ListPath == DropLast(xpath(<<>>), 1)

----------------------------------------------------------------------------
(* The inputs of the operations.                                           *)

Vsyses == {"", "vsys1"}

OpModes == {"layer3", "virtual-wire", "ha", "aggregate-group"}

OpEntries == {[Named(mode) EXCEPT !.Name = n] : n \in Names, mode \in OpModes}

\* What a caller can hand to Delete: a name, an Entry, or something else.
Identifiers ==
    {[kind |-> "string", name |-> n, mode |-> ""] : n \in Names}
    \cup {[kind |-> "Entry", name |-> x.Name, mode |-> x.Mode] : x \in OpEntries}
    \cup {[kind |-> "int", name |-> "", mode |-> ""]}

SeqsUpTo(S, n) == UNION {[1..k -> S] : k \in 0..n}

\* The device versions the operations run against: one on each side of the
\* threshold of versioning().
OpVersions ==
    {[Major |-> 7, Minor |-> 0, Patch |-> 1, Suffix |-> ""],
     [Major |-> 7, Minor |-> 1, Patch |-> 0, Suffix |-> ""]}

----------------------------------------------------------------------------
(* Operation run: a single caller makes one call after the other. Each    *)
(* call runs to its return (the engine is synchronous); the caller then    *)
(* takes the result and is free to make the next call.                     *)

Init == OpsIdle /\ CodecIdle /\ hist = <<>> /\ CopyIdle /\ DevIdle

Set ==
    /\ op = NoOp
    /\ \E vsys \in Vsyses, e \in SeqsUpTo(OpEntries, MaxBatch), v \in OpVersions,
          r1 \in Results, r2 \in Results :
            /\ op' = [name |-> "Set", vsys |-> vsys, args |-> e, ver |-> v]
            /\ calls' = SetRun(vsys, e, v, r1, r2).calls
            /\ ret' = SetRun(vsys, e, v, r1, r2).ret
    /\ UNCHANGED <<codecVars, hist, copyVars, devVars>>

Edit ==
    /\ op = NoOp
    /\ \E vsys \in Vsyses, e \in OpEntries, v \in OpVersions,
          r1 \in Results, r2 \in Results :
            /\ op' = [name |-> "Edit", vsys |-> vsys, args |-> <<e>>, ver |-> v]
            /\ calls' = EditRun(vsys, e, v, r1, r2).calls
            /\ ret' = EditRun(vsys, e, v, r1, r2).ret
    /\ UNCHANGED <<codecVars, hist, copyVars, devVars>>

Delete ==
    /\ op = NoOp
    /\ \E vsys \in Vsyses, e \in SeqsUpTo(Identifiers, MaxBatch),
          r1 \in Results, r2 \in Results :
            /\ op' = [name |-> "Delete", vsys |-> vsys, args |-> e,
                      ver |-> NoVersion]
            /\ calls' = DeleteRun(vsys, e, r1, r2).calls
            /\ ret' = DeleteRun(vsys, e, r1, r2).ret
    /\ UNCHANGED <<codecVars, hist, copyVars, devVars>>

ShowList ==
    /\ op = NoOp
    /\ \E r \in Results :
            /\ op' = [name |-> "ShowList", vsys |-> "", args |-> <<>>,
                      ver |-> NoVersion]
            /\ calls' = <<Call("show", ListPath, "", <<>>, Nil, r)>>
            /\ ret' = r
    /\ UNCHANGED <<codecVars, hist, copyVars, devVars>>

GetList ==
    /\ op = NoOp
    /\ \E r \in Results :
            /\ op' = [name |-> "GetList", vsys |-> "", args |-> <<>>,
                      ver |-> NoVersion]
            /\ calls' = <<Call("get", ListPath, "", <<>>, Nil, r)>>
            /\ ret' = r
    /\ UNCHANGED <<codecVars, hist, copyVars, devVars>>

\* The caller has the result of its call.
Return ==
    /\ op /= NoOp
    /\ op' = NoOp /\ calls' = <<>> /\ ret' = "nil"
    /\ UNCHANGED <<codecVars, hist, copyVars, devVars>>

Next == Set \/ Edit \/ Delete \/ ShowList \/ GetList \/ Return

Spec == Init /\ [][Next]_vars

----------------------------------------------------------------------------
(* The device behind the transport client: the interfaces it has           *)
(* configured, with their mode, and the interfaces imported into the vsys. *)

\* The mode block a wire entry carries.
WireMode(w) ==
    IF w.ModeL3 /= Nil THEN "layer3"
    ELSE IF w.ModeL2 /= Nil THEN "layer2"
    ELSE IF w.ModeVwire /= Nil THEN "virtual-wire"
    ELSE IF w.TapMode /= Nil THEN "tap"
    ELSE IF w.HaMode /= Nil THEN "ha"
    ELSE IF w.DecryptMirrorMode /= Nil THEN "decrypt-mirror"
    ELSE IF w.AggregateGroupMode /= Nil THEN "aggregate-group"
    ELSE "unset"

\* The entries of a write body: one entry, or the entries of the container
\* element.
BodyEntries(b) == IF "Data" \in DOMAIN b THEN b.Data ELSE <<b>>

\* The names the selector ending a path selects.
SelectorNames(path) == Tail(path[Len(path)])

SeqRange(sq) == {sq[i] : i \in 1..Len(sq)}

\* The interfaces a transport call is about.
CallNames(c) ==
    IF c.fn \in {"set", "edit"}
    THEN {BodyEntries(c.body[1])[i].Name : i \in 1..Len(BodyEntries(c.body[1]))}
    ELSE IF c.fn = "delete" THEN SeqRange(SelectorNames(c.path))
    ELSE SeqRange(c.names)

\* The configuration after the entries es are written, in order, for the
\* interfaces in hit.
RECURSIVE Written(_, _, _)
Written(cm, es, hit) ==
    IF es = <<>> THEN cm
    ELSE Written(IF Head(es).Name \in hit
                 THEN [cm EXCEPT ![Head(es).Name] = WireMode(Head(es))]
                 ELSE cm,
                 Tail(es), hit)

\* The device after one transport call. A call that returned no error took
\* effect for all its interfaces; a call that returned an error took effect
\* for those of its interfaces that are in part (possibly none).
DeviceAfterCall(dev, c, part) ==
    LET hit == IF c.res = "nil" THEN CallNames(c) ELSE CallNames(c) \cap part
    IN  IF c.fn \in {"set", "edit"}
        THEN [dev EXCEPT !.cfgMode = Written(@, BodyEntries(c.body[1]), hit)]
        ELSE IF c.fn = "import" THEN [dev EXCEPT !.imported = @ \cup hit]
        ELSE IF c.fn = "unimport" THEN [dev EXCEPT !.imported = @ \ hit]
        ELSE IF c.fn = "delete"
        THEN [dev EXCEPT !.cfgMode =
                [n \in Names |-> IF n \in hit THEN "none" ELSE @[n]]]
        ELSE dev

\* The device after the calls of one operation, in order.
RECURSIVE DeviceAfter(_, _, _)
DeviceAfter(dev, cs, part) ==
    IF cs = <<>> THEN dev
    ELSE DeviceAfter(DeviceAfterCall(dev, Head(cs), part), Tail(cs), part)

Device == [cfgMode |-> cfgMode, imported |-> imported]

----------------------------------------------------------------------------
(* Device run: a single caller makes Set, Edit and Delete calls that all   *)
(* pass the same non-empty vsys, against a device on which every transport *)
(* call may succeed or fail. A batch names an interface at most once.      *)

Scope == "vsys1"

DevModes == {"layer3", "ha", "aggregate-group"}

DevEntries == {[Named(mode) EXCEPT !.Name = n] : n \in Names, mode \in DevModes}

DistinctNames(e) ==
    \A i, j \in 1..Len(e) : e[i].Name = e[j].Name => i = j

DevBatches == {e \in SeqsUpTo(DevEntries, MaxBatch) : DistinctNames(e)}

DevIdentifiers ==
    {[kind |-> "string", name |-> n, mode |-> ""] : n \in Names}
    \cup {[kind |-> "Entry", name |-> "ethernet1/1", mode |-> "ha"],
          [kind |-> "int", name |-> "", mode |-> ""]}

DevResults == {"nil", "err1"}

DevVersion == [Major |-> 7, Minor |-> 1, Patch |-> 0, Suffix |-> ""]

InitDevice == OpsIdle /\ CodecIdle /\ CopyIdle /\ DevIdle /\ hist = <<>>

DevSet ==
    /\ op = NoOp
    /\ \E e \in DevBatches, r1 \in DevResults, r2 \in DevResults,
          part \in SUBSET Names :
            LET run == SetRun(Scope, e, DevVersion, r1, r2)
                dev == DeviceAfter(Device, run.calls, part)
            IN  /\ op' = [name |-> "Set", vsys |-> Scope, args |-> e,
                          ver |-> DevVersion]
                /\ calls' = run.calls
                /\ ret' = run.ret
                /\ cfgMode' = dev.cfgMode
                /\ imported' = dev.imported
                /\ clean' = (clean /\ run.ret = "nil")
    /\ UNCHANGED <<codecVars, hist, copyVars>>

DevEdit ==
    /\ op = NoOp
    /\ \E e \in DevEntries, r1 \in DevResults, r2 \in DevResults,
          part \in SUBSET Names :
            LET run == EditRun(Scope, e, DevVersion, r1, r2)
                dev == DeviceAfter(Device, run.calls, part)
            IN  /\ op' = [name |-> "Edit", vsys |-> Scope, args |-> <<e>>,
                          ver |-> DevVersion]
                /\ calls' = run.calls
                /\ ret' = run.ret
                /\ cfgMode' = dev.cfgMode
                /\ imported' = dev.imported
                /\ clean' = (clean /\ run.ret = "nil")
    /\ UNCHANGED <<codecVars, hist, copyVars>>

DevDelete ==
    /\ op = NoOp
    /\ \E e \in SeqsUpTo(DevIdentifiers, MaxBatch), r1 \in DevResults,
          r2 \in DevResults, part \in SUBSET Names :
            LET run == DeleteRun(Scope, e, r1, r2)
                dev == DeviceAfter(Device, run.calls, part)
            IN  /\ op' = [name |-> "Delete", vsys |-> Scope, args |-> e,
                          ver |-> NoVersion]
                /\ calls' = run.calls
                /\ ret' = run.ret
                /\ cfgMode' = dev.cfgMode
                /\ imported' = dev.imported
                /\ clean' = FALSE
    /\ UNCHANGED <<codecVars, hist, copyVars>>

NextDevice == DevSet \/ DevEdit \/ DevDelete \/ Return

SpecDevice == InitDevice /\ [][NextDevice]_vars

----------------------------------------------------------------------------
(* Vocabulary of the codec claims.                                         *)

CommonFields == {"Name", "Mode", "LinkSpeed", "LinkDuplex", "LinkState", "Comment"}

ModeFields(mode) ==
    IF mode = "layer3"
    THEN {"StaticIps", "EnableDhcp", "CreateDhcpDefaultRoute",
          "DhcpDefaultRouteMetric", "Ipv6Enabled", "ManagementProfile", "Mtu",
          "AdjustTcpMss", "NetflowProfile", "Ipv4MssAdjust", "Ipv6MssAdjust"}
    ELSE IF mode \in {"layer2", "virtual-wire"}
    THEN {"LldpEnabled", "LldpProfile", "NetflowProfile"}
    ELSE IF mode = "aggregate-group" THEN {"AggregateGroup"}
    ELSE {}

BoolFields ==
    {"EnableDhcp", "CreateDhcpDefaultRoute", "Ipv6Enabled", "AdjustTcpMss",
     "LldpEnabled"}

DataFields == DOMAIN ZeroEntry \ {"raw"}

\* Every field of e's mode that has a zero value to differ from is set, and
\* every opaque fragment of the mode is present.
FullyPopulated(e) ==
    /\ \A f \in (CommonFields \cup ModeFields(e.Mode)) \ BoolFields :
            e[f] /= ZeroEntry[f]
    /\ RawKeys(e.Mode) /= {} => e.raw /= Nil /\ DOMAIN e.raw[1] = RawKeys(e.Mode)

\* The fields of the other modes are zero, their fragments absent.
OtherModeZero(e) ==
    /\ \A f \in DataFields \ (CommonFields \cup ModeFields(e.Mode)) :
            e[f] = ZeroEntry[f]
    /\ e.raw /= Nil => DOMAIN e.raw[1] \subseteq RawKeys(e.Mode)

\* The fragment map is absent rather than empty.
IsNormalized(e) == e.raw /= Ptr(EmptyMap)

\* The unparsed sub-sections of a wire entry Normalize keeps in Entry.raw.
OpaqueSections == {"arp", "l3units", "ipv6", "l2units"}

Section(w, s) ==
    IF s = "arp" THEN (IF w.ModeL3 = Nil THEN Nil ELSE w.ModeL3[1].Arp)
    ELSE IF s = "l3units" THEN (IF w.ModeL3 = Nil THEN Nil ELSE w.ModeL3[1].Subinterface)
    ELSE IF s = "ipv6" THEN (IF w.ModeL3 = Nil THEN Nil ELSE w.ModeL3[1].Ipv6.Address)
    ELSE IF s = "l2units" THEN (IF w.ModeL2 = Nil THEN Nil ELSE w.ModeL2[1].Subinterface)
    ELSE (IF w.ModeVwire = Nil THEN Nil ELSE w.ModeVwire[1].Subinterface)

Cleaned(p) == IF p = Nil THEN Nil ELSE Ptr([Text |-> CleanRawXml(p[1].Text)])

----------------------------------------------------------------------------
(* C6. Round-trip law: for each wire schema and each of the seven modes,   *)
(* Normalize(Specify(e)) = e for every normalized entity e whose fields    *)
(* are fully populated for its mode and whose other-mode fields are zero.  *)
C6_RoundTripLaw ==
    (/\ phase = "normalized"
     /\ ent.Mode \in Modes
     /\ FullyPopulated(ent) /\ OtherModeZero(ent) /\ IsNormalized(ent))
    => out = ent

----------------------------------------------------------------------------
(* C7, as stated. An unparsed sub-section read with Normalize and written  *)
(* back unmodified with Specify holds, in the same sub-section of the      *)
(* produced wire entry, content byte-equal to what was read; a sub-section *)
(* that was absent stays absent.                                           *)
C7_ByteEqualFragments ==
    phase = "written" =>
        \A s \in OpaqueSections : Section(wout, s) = Section(wire, s)

(* C7, amended. The sub-section written back holds CleanRawXml of the      *)
(* content read (byte-equal to it exactly when the content read has no     *)
(* formatting for CleanRawXml to trim), in the same sub-section; a         *)
(* sub-section that was absent stays absent, and the units of a            *)
(* virtual-wire entry, which Normalize does not keep, receive nothing.     *)
C7_CleanedFragments ==
    phase = "written" =>
        /\ \A s \in OpaqueSections : Section(wout, s) = Cleaned(Section(wire, s))
        /\ Section(wout, "vwunits") = Nil

\* A layer3 payload whose arp section carries formatting was read and
\* written back, with its other sections absent.
C7_Witness ==
    /\ phase = "written"
    /\ Section(wire, "arp") /= Nil
    /\ Section(wire, "arp") /= Cleaned(Section(wire, "arp"))
    /\ Section(wout, "arp") /= Nil
    /\ Section(wire, "l3units") = Nil

----------------------------------------------------------------------------
(* Vocabulary of the operation claims.                                     *)

CallsOf(fn) == SelectSeq(calls, LAMBDA c : c.fn = fn)

NamesOf(ids) == [i \in 1..Len(ids) |-> ids[i].name]

AllAreNames(ids) == \A i \in 1..Len(ids) : ids[i].kind \in {"string", "Entry"}

NotExclusive(x) == x.Mode \notin {"ha", "aggregate-group"}

\* The names, in input order, of the entries that are neither "ha" nor
\* "aggregate-group".
EligibleNames(es) ==
    LET keep == SelectSeq(es, NotExclusive)
    IN  [i \in 1..Len(keep) |-> keep[i].Name]

InSeq(x, sq) == \E i \in 1..Len(sq) : sq[i] = x

\* The path Edit hands to the edit primitive for entry e.
EditPathOf(e) == EditRun("", e, NoVersion, "nil", "nil").calls[1].path

LastSegment(path) == path[Len(path)]

----------------------------------------------------------------------------
(* C1. Delete with a scope and at least one name calls unimport before     *)
(* the delete primitive; if unimport returns an error, Delete returns that *)
(* error and the delete primitive is not called.                           *)
C1_UnimportBeforeDelete ==
    (/\ op.name = "Delete" /\ op.vsys /= ""
     /\ Len(op.args) >= 1 /\ AllAreNames(op.args))
    =>  /\ Len(calls) >= 1
        /\ calls[1].fn = "unimport"
        /\ \A i \in 1..Len(calls) : calls[i].fn = "delete" => i > 1
        /\ calls[1].res /= "nil" => ret = calls[1].res /\ CallsOf("delete") = <<>>
        /\ calls[1].res = "nil" => Len(calls) = 2 /\ calls[2].fn = "delete"

\* A Delete with a scope whose unimport failed.
C1_Witness ==
    /\ op.name = "Delete" /\ op.vsys = "vsys1" /\ Len(op.args) = 2
    /\ Len(calls) = 1 /\ calls[1].fn = "unimport" /\ calls[1].res = "err1"
    /\ ret = "err1"

----------------------------------------------------------------------------
----------------------------------------------------------------------------
(* C3, as stated. Set called with exactly the one entry e passes to the    *)
(* set primitive the path Edit passes to the edit primitive for e, the     *)
(* entry path ending in the selector for e's name.                         *)
C3_SetOnePathIsEditPath ==
    (op.name = "Set" /\ Len(op.args) = 1)
    =>  /\ calls[1].path = EditPathOf(op.args[1])
        /\ LastSegment(calls[1].path) = AsEntryXpath(<<op.args[1].Name>>)

(* C3, amended. Set called with exactly the one entry e passes to the set  *)
(* primitive the container path ending at "ethernet", the path the list    *)
(* operations use: the path Edit passes for e without its final selector.  *)
C3_SetOnePathIsContainer ==
    (op.name = "Set" /\ Len(op.args) = 1)
    =>  /\ calls[1].fn = "set"
        /\ calls[1].path = DropLast(EditPathOf(op.args[1]), 1)
        /\ calls[1].path = ListPath
        /\ LastSegment(calls[1].path) = <<"ethernet">>

\* A Set of one entry has called the set primitive.
C3_Witness ==
    /\ op.name = "Set" /\ Len(op.args) = 1 /\ op.args[1].Name = "ethernet1/2"
    /\ Len(calls) >= 1 /\ calls[1].fn = "set" /\ Len(calls[1].path) = 6

----------------------------------------------------------------------------
(* C4, as stated. Set called with more than one entry passes to the set    *)
(* primitive the container path, which ends at the "ethernet" segment with *)
(* no selector and is the path the list operations use.                    *)
C4_SetManyPathIsContainer ==
    (op.name = "Set" /\ Len(op.args) > 1)
    =>  /\ calls[1].path = ListPath
        /\ LastSegment(calls[1].path) = <<"ethernet">>

(* C4, amended. Set called with more than one entry passes to the set      *)
(* primitive the path ending at the "interface" segment: the path of the   *)
(* list operations without its final "ethernet" segment.                   *)
C4_SetManyPathIsParent ==
    (op.name = "Set" /\ Len(op.args) > 1)
    =>  /\ calls[1].fn = "set"
        /\ calls[1].path = DropLast(ListPath, 1)
        /\ LastSegment(calls[1].path) = <<"interface">>

\* A Set of two entries has called the set primitive.
C4_Witness ==
    /\ op.name = "Set" /\ Len(op.args) = 2
    /\ Len(calls) >= 1 /\ calls[1].fn = "set" /\ Len(calls[1].path) = 5

----------------------------------------------------------------------------
(* C5. Set with no entry and Delete with no identifier make no transport   *)
(* call at all, for any scope, and return no error.                        *)
C5_EmptyBatchNoCalls ==
    (op.name \in {"Set", "Delete"} /\ Len(op.args) = 0)
    => calls = <<>> /\ ret = "nil"

\* A Set of nothing into a vsys has returned.
C5_Witness ==
    op.name = "Set" /\ op.vsys = "vsys1" /\ op.args = <<>> /\ ret = "nil"

----------------------------------------------------------------------------
(* Vocabulary of the version claim.                                        *)

\* v is 7.1.0 or a later version.
AtLeast710(v) == v.Major > 7 \/ (v.Major = 7 /\ v.Minor >= 1)

\* a is an earlier version than b.
Earlier(a, b) ==
    \/ a.Major < b.Major
    \/ a.Major = b.Major /\ a.Minor < b.Minor
    \/ a.Major = b.Major /\ a.Minor = b.Minor /\ a.Patch < b.Patch

IsV1(h) == h.container = "container_v1" /\ h.fn = "specify_v1"

IsV2(h) == h.container = "container_v2" /\ h.fn = "specify_v2"

----------------------------------------------------------------------------
(* C8. Version selection is total and monotone: every device version       *)
(* resolves to exactly one schema, v2 from 7.1.0 on and v1 before; the     *)
(* container and the serialize function returned belong to the same        *)
(* schema; two versions on the same side of the threshold select the same  *)
(* schema; and with growing version the selection goes from v1 to v2 once  *)
(* and never back.                                                         *)
C8_VersionSelection ==
    \A i \in 1..Len(hist) :
        /\ IsV1(hist[i]) \/ IsV2(hist[i])
        /\ IsV2(hist[i]) <=> AtLeast710(hist[i].v)
        /\ \A j \in 1..Len(hist) :
            /\ (AtLeast710(hist[i].v) <=> AtLeast710(hist[j].v))
                => hist[i].fn = hist[j].fn /\ hist[i].container = hist[j].container
            /\ (Earlier(hist[i].v, hist[j].v) /\ IsV2(hist[i])) => IsV2(hist[j])

\* The last version before the threshold selected v1, the threshold
\* version then selected v2.
C8_Witness ==
    /\ Len(hist) = 2
    /\ hist[1].v = [Major |-> 7, Minor |-> 0, Patch |-> 1, Suffix |-> "h1"]
    /\ hist[2].v = [Major |-> 7, Minor |-> 1, Patch |-> 0, Suffix |-> ""]
    /\ IsV1(hist[1]) /\ IsV2(hist[2])

----------------------------------------------------------------------------
(* C9. Delete calls unimport only if the scope is non-empty, and then with *)
(* all the given names in input order whatever the mode of each entry;     *)
(* with an empty scope it makes no unimport call and goes directly to the  *)
(* delete primitive.                                                       *)
C9_UnimportOnlyWithScope ==
    (op.name = "Delete" /\ Len(op.args) >= 1 /\ AllAreNames(op.args))
    =>  IF op.vsys /= ""
        THEN /\ calls[1].fn = "unimport"
             /\ calls[1].vsys = op.vsys
             /\ calls[1].names = NamesOf(op.args)
        ELSE /\ CallsOf("unimport") = <<>>
             /\ calls[1].fn = "delete"

----------------------------------------------------------------------------
(* C10. Set and Edit are two-step writes without compensation: if the      *)
(* primary set / edit call fails, its error is returned unchanged and      *)
(* import is not called; if it succeeds and the import call fails, the     *)
(* import error is returned unchanged and no further transport call is     *)
(* made (no delete, no unimport, no retry).                                *)
C10_NoCompensation ==
    (op.name \in {"Set", "Edit"} /\ Len(calls) >= 1)
    =>  /\ calls[1].fn = (IF op.name = "Set" THEN "set" ELSE "edit")
        /\ calls[1].res /= "nil" => ret = calls[1].res /\ Len(calls) = 1
        /\ Len(calls) >= 2 =>
            /\ Len(calls) = 2
            /\ calls[1].res = "nil"
            /\ calls[2].fn = "import"
            /\ ret = calls[2].res

\* A Set whose write succeeded and whose import failed.
C10_Witness ==
    /\ op.name = "Set" /\ Len(calls) = 2
    /\ calls[1].fn = "set" /\ calls[1].res = "nil"
    /\ calls[2].fn = "import" /\ calls[2].res = "err2"
    /\ ret = "err2"

----------------------------------------------------------------------------
(* C11. Copy copies all fields except the name: after o.Copy(s), o.Name is *)
(* unchanged and every other attribute of o (mode, mode-specific fields    *)
(* and the opaque-fragment map) equals the corresponding attribute of s.   *)
C11_CopyAllButName ==
    phase = "copied" =>
        /\ out.Name = dst.Name
        /\ \A f \in DOMAIN ZeroEntry \ {"Name"} : out[f] = ent[f]

----------------------------------------------------------------------------
(* C12. Delete given an identifier that is neither a name string nor an    *)
(* Entry returns a local error at once and makes no transport call,        *)
(* neither unimport nor delete, even when the other identifiers of the     *)
(* call are valid.                                                         *)
C12_UnknownIdentifier ==
    (op.name = "Delete" /\ ~AllAreNames(op.args))
    =>  /\ calls = <<>>
        /\ ret = "Unknown type sent to delete"
        /\ ret \notin Results

\* A Delete of a valid name followed by an identifier of another type.
C12_Witness ==
    /\ op.name = "Delete" /\ op.vsys = "vsys1" /\ Len(op.args) = 2
    /\ op.args[1].kind = "string" /\ op.args[2].kind = "int"
    /\ calls = <<>> /\ ret /= "nil"

----------------------------------------------------------------------------
(* Vocabulary of the device claims.                                        *)

Existing == {n \in Names : cfgMode[n] /= "none"}

ExclusiveModes == {"ha", "aggregate-group"}

\* The call in progress gives an entry of this name a mode that can be
\* imported.
GivenImportable(o, n) ==
    \E i \in 1..Len(o.args) :
        o.args[i].Name = n /\ o.args[i].Mode \notin ExclusiveModes

----------------------------------------------------------------------------
(* C13. No dangling scope membership: with the device as a set of existing *)
(* interfaces and a set of interfaces imported into S, both empty at       *)
(* first, and any sequence of Set, Edit and Delete calls of one caller     *)
(* that all pass S, each transport call free to succeed or fail, every     *)
(* interface imported into S exists, in every reachable state.             *)
C13_ImportedExist == imported \subseteq Existing

\* A Delete of one of two imported interfaces whose unimport succeeded and
\* whose delete failed: the interface is out of S and still exists.
C13_Witness ==
    /\ op.name = "Delete" /\ Len(calls) = 2
    /\ calls[1].res = "nil" /\ calls[2].res /= "nil"
    /\ imported = {"ethernet1/2"}
    /\ Existing = Names

----------------------------------------------------------------------------
(* C14, as stated. After any sequence of successful Set and Edit calls     *)
(* with the scope S, from a device with nothing imported, no interface     *)
(* whose configured mode is "ha" or "aggregate-group" is a member of S,    *)
(* an interface rewritten from an importable mode included.                *)
C14_NoExclusiveMember ==
    clean => \A n \in imported : cfgMode[n] \notin ExclusiveModes

(* C14, amended. In any sequence of Set and Edit calls with the scope S,   *)
(* from a device with nothing imported, an interface becomes a member of S *)
(* only by a call that gives it a mode other than "ha" and                 *)
(* "aggregate-group", and no Set or Edit call removes a member: an         *)
(* interface written only as "ha" or "aggregate-group" is never a member,  *)
(* and one first written in an importable mode and later rewritten as "ha" *)
(* or "aggregate-group" stays a member.                                    *)
C14_MemberOnlyByImportableWrite ==
    [][op'.name \in {"Set", "Edit"} =>
        /\ \A n \in imported' \ imported : GivenImportable(op', n)
        /\ imported \subseteq imported']_vars

\* After successful Set and Edit calls only, an interface whose configured
\* mode is "ha" is a member of S: the call that rewrote it did not import
\* it, and did not remove it either.
C14_Witness ==
    /\ clean /\ op.name \in {"Set", "Edit"}
    /\ CallsOf("import") = <<>>
    /\ "ethernet1/1" \in imported
    /\ cfgMode["ethernet1/1"] = "ha"

====
